---------------------------- MODULE Spec2Model ----------------------------
(***************************************************************************)
(* A model of rpiremote_server.py: the camera writes raw frames to the     *)
(* converter process (BroadcastOutput), BroadcastThread.run forwards the   *)
(* converter's output to every websocket of the ws4py manager, and         *)
(* Server.start / Server.cleanup / main.endProcess drive the lifecycle.    *)
(*                                                                         *)
(* Library behaviour the script relies on is modelled at its call site:    *)
(*   - ws4py WebSocketManager.add calls websocket.opened() first and only  *)
(*     then inserts the websocket into its dictionary (under its lock);    *)
(*   - WebSocketManager.broadcast copies the dictionary under the lock and *)
(*     sends to every copy entry that is not terminated, swallowing any    *)
(*     exception of a send; it removes nothing;                            *)
(*   - the manager's own thread removes a websocket whose peer is gone;    *)
(*   - picamera's stop_recording calls the output's flush(), and raises    *)
(*     when no recording is in progress; an exception of write() is kept   *)
(*     by the encoder and raised by the next wait_recording();             *)
(*   - socketserver's shutdown() asks serve_forever to return and blocks   *)
(*     until it has; Thread.join blocks until the thread has ended and     *)
(*     raises for a thread that was never started;                         *)
(*   - BaseHTTPRequestHandler.send_response sends the Server and Date      *)
(*     headers; send_error sends Connection, Content-Type and              *)
(*     Content-Length headers and its page, the page not for HEAD.         *)
(*                                                                         *)
(* Spec is the server with its threads, the converter and the viewers;     *)
(* FairSpec adds the scheduling of the threads; PackSpec packs the         *)
(* handshake for every configuration of width and height; HttpSpec is the  *)
(* HTTP handler of the running server answering requests.                  *)
(***************************************************************************)
EXTENDS Integers, Sequences, FiniteSets, TLC

\* ------------------------------------------------------------------ bounds
MaxSessions == 2
MaxChunks == 2
MaxFrames == 1
MaxSignals == 2
PipeCap == 1
MaxTime == 2

\* --------------------------------------------------------- configuration
WIDTH == 640
HEIGHT == 480

JSMPEG_MAGIC == <<106, 115, 109, 112>>

\* Struct('>4sHH').pack: the 4 bytes of the magic, then the two fields as
\* unsigned 16-bit big-endian integers.
\* Mutant of JSMPEG_HEADER_pack: the format '<4sHH', little-endian fields.
JSMPEG_HEADER_packLittleEndian(magic, w, h) ==
    [i \in 1..4 |-> IF i <= Len(magic) THEN magic[i] ELSE 0]
        \o <<w % 256, w \div 256, h % 256, h \div 256>>

\* '4s' takes the first 4 bytes of the magic, padded with zero bytes.
JSMPEG_HEADER_pack(magic, w, h) ==
    [i \in 1..4 |-> IF i <= Len(magic) THEN magic[i] ELSE 0]
        \o <<w \div 256, w % 256, h \div 256, h % 256>>

\* The values an 'H' field takes (struct.pack raises for any other).
USHORT == 0..(2^16 - 1)

Sessions == 1..MaxSessions

\* ------------------------------------------------------------ text, files
WS_PORT == 8084
COLOR == <<35, 52, 52, 52>>
BGCOLOR == <<35, 51, 51, 51>>

\* Text is a sequence of code points, content a sequence of bytes.
\* str(n) and '%d' % n of a natural number: its decimal digits.
RECURSIVE Dec(_)
Dec(n) == IF n < 10 THEN <<48 + n>> ELSE Dec(n \div 10) \o <<48 + (n % 10)>>

RECURSIVE Concat(_)
Concat(ss) == IF ss = <<>> THEN <<>> ELSE Head(ss) \o Concat(Tail(ss))

\* The UTF-8 bytes of one code point (up to three bytes).
Utf8(cp) ==
    IF cp < 128 THEN <<cp>>
    ELSE IF cp < 2048 THEN <<192 + (cp \div 64), 128 + (cp % 64)>>
    ELSE <<224 + (cp \div 4096), 128 + ((cp \div 64) % 64), 128 + (cp % 64)>>

\* content.encode('utf-8')
encode(s) == Concat([i \in 1..Len(s) |-> Utf8(s[i])])

\* A template as string.Template reads it: literal text, '$$', and
\* placeholders ($NAME or ${NAME}, kept as written in src).
Lit(s) == [t |-> "lit", name |-> "", src |-> s]
Esc == [t |-> "esc", name |-> "", src |-> <<36, 36>>]
Var(name, src) == [t |-> "var", name |-> name, src |-> src]

\* Template(tpl).safe_substitute(mapping): '$$' becomes '$', a placeholder
\* of the mapping becomes its value, any other placeholder stays as written.
safe_substitute(tpl, mapping) ==
    Concat([i \in 1..Len(tpl) |->
        IF tpl[i].t = "lit" THEN tpl[i].src
        ELSE IF tpl[i].t = "esc" THEN <<36>>
        ELSE IF tpl[i].name \in DOMAIN mapping THEN mapping[tpl[i].name]
        ELSE tpl[i].src])

\* index.html and jsmpg.js as the server finds them next to the script.
\* IndexHtml: "w=${WIDTH} h=$HEIGHT ws://${ADDRESS}"
IndexHtml ==
    << Lit(<<119, 61>>), Var("WIDTH", <<36, 123, 87, 73, 68, 84, 72, 125>>),
       Lit(<<32, 104, 61>>), Var("HEIGHT", <<36, 72, 69, 73, 71, 72, 84>>),
       Lit(<<32, 119, 115, 58, 47, 47>>),
       Var("ADDRESS", <<36, 123, 65, 68, 68, 82, 69, 83, 83, 125>>) >>

\* IndexHtmlRich: "${BGCOLOR}${COLOR}<e-acute><euro>$$${X}$WIDTH,$HEIGHT"
IndexHtmlRich ==
    << Var("BGCOLOR", <<36, 123, 66, 71, 125>>), Var("COLOR", <<36, 123, 67, 125>>),
       Lit(<<233, 8364>>), Esc, Var("X", <<36, 123, 88, 125>>),
       Var("WIDTH", <<36, 87, 73, 68, 84, 72>>), Lit(<<44>>),
       Var("HEIGHT", <<36, 72, 69, 73, 71, 72, 84>>) >>

Templates == {IndexHtml, IndexHtmlRich}

\* JsmpgJs: "js"; JsmpgJsRich: "//<e-acute>$WIDTH" (served as it is)
JsmpgJs == <<106, 115>>
JsmpgJsRich == <<47, 47, 233, 36, 87, 73, 68, 84, 72>>

Scripts == {JsmpgJs, JsmpgJsRich}

\* What a viewer's browser may ask for, and the addresses it reaches the
\* server at.
Paths ==
    {"/", "/index.html", "/jsmpg.js", "/nonexistent.file", "/index.html?a=1",
     "/jsmpg.js/", ""}
Commands == {"GET", "HEAD"}
Socknames == {<<49, 48, 46, 48, 46, 48, 46, 50>>}

\* A binary websocket message as a viewer receives it.
Msg(kind, data) == [kind |-> kind, data |-> data]

HeaderMsg == Msg("hdr", JSMPEG_HEADER_pack(JSMPEG_MAGIC, WIDTH, HEIGHT))

\* The i-th chunk of converter output (one read of up to 512 bytes); chunks
\* differ from each other so that order, loss and duplication are visible.
Chunk(i) == <<i>>

VARIABLES
    mpc,          \* main thread: the statement of Server.start or Server.cleanup it is at
    mstate,       \* main thread: "running", "exited" (exit(0)) or "crashed" (uncaught exception)
    sigs,         \* termination signals delivered so far (= calls of endProcess)
    steps,        \* teardown statements of Server.cleanup that have completed
    rec,          \* camera: "idle", "recording", "stopping", "stopped"
    camErr,       \* an exception of BroadcastOutput.write kept by the encoder
    written,      \* frames BroadcastOutput.write passed to the converter
    conv,         \* converter process: "none", "running", "exited"
    convKind,     \* "good" exits once its input is closed; "stuck" has stopped
                  \* responding; "writing" is blocked in a write to its full stdout pipe
    stdinOpen,    \* converter.stdin not yet closed by flush
    outOpen,      \* the converter still holds the write end of its stdout
    killed,       \* the converter was killed from outside
    pipe,         \* converter output not yet read
    emitted,      \* every chunk the converter has emitted
    lateOut,      \* chunks the converter emitted after its input was closed
    stdoutClosed, \* converter.stdout closed by BroadcastThread.run's finally
    bpc,          \* broadcast thread: "none","created","read","poll","bcast","send","blocked","done"
    buf,          \* the chunk BroadcastThread.run holds
    snap,         \* websockets of broadcast's copy still to be sent the chunk
    cur,          \* the websocket whose send blocks the broadcast thread (0: none)
    nbcast,       \* calls of manager.broadcast so far
    atRead,       \* the manager's websockets at the moment of the last read
    httpT,        \* http_thread: "none","created","serving","stopped"
    httpReq,      \* http_server.shutdown() requested
    wsT,          \* websocket_thread: "none","created","serving","stopped"
    wsReq,        \* websocket_server.shutdown() requested
    sess,         \* viewer: "new","accepted","opened","managed","removed","failed"
    sock,         \* viewer's connection: "ok", "broken" (sends raise), "hung" (sends block)
    recv,         \* messages each viewer has received
    regAt,        \* nbcast when the viewer was inserted into the manager
    websockets,   \* manager.websockets
    pw,           \* the configured WIDTH
    ph,           \* the configured HEIGHT
    packed,       \* JSMPEG_HEADER.pack(JSMPEG_MAGIC, WIDTH, HEIGHT), once computed
    index_template, \* http_server.index_template
    jsmpg_content,  \* http_server.jsmpg_content
    now,          \* time(), in half seconds
    request,      \* the request the HTTP handler handled last
    response,     \* and what it sent back
    prev          \* the exchange before that

mainVars == <<mpc, mstate, sigs, steps>>
camVars == <<rec, camErr, written>>
convVars == <<conv, convKind, stdinOpen, outOpen, killed, pipe, emitted, lateOut>>
bcastVars == <<stdoutClosed, bpc, buf, snap, cur, nbcast, atRead>>
srvVars == <<httpT, httpReq, wsT, wsReq>>
sessVars == <<sess, sock, recv, regAt, websockets>>
packVars == <<pw, ph, packed>>
httpVars == <<index_template, jsmpg_content, now, request, response, prev>>
auxVars == <<packVars, httpVars>>
serverVars == <<mainVars, camVars, convVars, bcastVars, srvVars, sessVars>>
vars == <<serverVars, auxVars>>

\* The configuration of the source.
InitPack == pw = WIDTH /\ ph = HEIGHT /\ packed = <<>>

InitServer ==
    /\ mpc = "mk_ws" /\ mstate = "running" /\ sigs = 0 /\ steps = {}
    /\ rec = "idle" /\ camErr = FALSE /\ written = 0
    /\ conv = "none" /\ convKind = "good" /\ stdinOpen = FALSE
    /\ outOpen = FALSE /\ killed = FALSE /\ pipe = <<>> /\ emitted = <<>>
    /\ lateOut = 0
    /\ stdoutClosed = FALSE /\ bpc = "none" /\ buf = <<>> /\ snap = {} /\ cur = 0
    /\ nbcast = 0 /\ atRead = {}
    /\ httpT = "none" /\ httpReq = FALSE /\ wsT = "none" /\ wsReq = FALSE
    /\ sess = [s \in Sessions |-> "new"]
    /\ sock = [s \in Sessions |-> "ok"]
    /\ recv = [s \in Sessions |-> <<>>]
    /\ regAt = [s \in Sessions |-> 0]
    /\ websockets = {}

NoRequest == [command |-> "", path |-> "", sockname |-> <<>>, at |-> 0]
NoResponse == [status |-> 0, headers |-> <<>>, body |-> <<>>]
NoExchange == [request |-> NoRequest, response |-> NoResponse]

\* No request was handled yet.
InitExchange ==
    /\ now = 0 /\ request = NoRequest /\ response = NoResponse
    /\ prev = NoExchange

Init ==
    /\ InitServer /\ InitPack /\ InitExchange
    /\ index_template = <<>> /\ jsmpg_content = <<>>

\* ------------------------------------------------------- main: Server.start
Crash == mstate' = "crashed" /\ UNCHANGED <<mpc, sigs, steps>>

Goto(pc) == mpc' = pc /\ UNCHANGED <<mstate, sigs, steps>>

Completed(step, pc) ==
    mpc' = pc /\ steps' = steps \cup {step} /\ UNCHANGED <<mstate, sigs>>

\* make_server, initialize_websockets_manager, Thread(target=serve_forever)
StartMakeWebsocketServer ==
    /\ mstate = "running" /\ mpc = "mk_ws"
    /\ wsT' = "created"
    /\ Goto("mk_http")
    /\ UNCHANGED <<camVars, convVars, bcastVars, sessVars, httpT, httpReq, wsReq>>
    /\ UNCHANGED auxVars

\* StreamingHttpServer(), Thread(target=serve_forever)
StartMakeHttpServer ==
    /\ mstate = "running" /\ mpc = "mk_http"
    /\ httpT' = "created"
    /\ index_template' = IndexHtml
    /\ jsmpg_content' = JsmpgJs
    /\ Goto("mk_bcast")
    /\ UNCHANGED <<camVars, convVars, bcastVars, sessVars, httpReq, wsT, wsReq>>
    /\ UNCHANGED <<packVars, now, request, response, prev>>

\* BroadcastOutput(camera) spawns the converter; BroadcastThread(...)
StartMakeBroadcast ==
    /\ mstate = "running" /\ mpc = "mk_bcast"
    /\ conv' = "running" /\ stdinOpen' = TRUE /\ outOpen' = TRUE
    /\ bpc' = "created"
    /\ Goto("start_rec")
    /\ UNCHANGED <<camVars, convKind, killed, pipe, emitted, lateOut, stdoutClosed, buf,
                   snap, cur, nbcast, atRead, srvVars, sessVars>>
    /\ UNCHANGED auxVars

\* camera.start_recording(output, 'yuv')
StartRecording ==
    /\ mstate = "running" /\ mpc = "start_rec"
    /\ rec' = "recording"
    /\ Goto("start_ws")
    /\ UNCHANGED <<camErr, written, convVars, bcastVars, srvVars, sessVars>>
    /\ UNCHANGED auxVars

\* websocket_thread.start()
StartWebsocketThread ==
    /\ mstate = "running" /\ mpc = "start_ws"
    /\ wsT' = "serving"
    /\ Goto("start_http")
    /\ UNCHANGED <<camVars, convVars, bcastVars, sessVars, httpT, httpReq, wsReq>>
    /\ UNCHANGED auxVars

\* http_thread.start()
StartHttpThread ==
    /\ mstate = "running" /\ mpc = "start_http"
    /\ httpT' = "serving"
    /\ Goto("start_bcast")
    /\ UNCHANGED <<camVars, convVars, bcastVars, sessVars, httpReq, wsT, wsReq>>
    /\ UNCHANGED auxVars

\* broadcast_thread.start()
StartBroadcastThread ==
    /\ mstate = "running" /\ mpc = "start_bcast"
    /\ bpc' = "read"
    /\ Goto("wait")
    /\ UNCHANGED <<camVars, convVars, stdoutClosed, buf, snap, cur, nbcast, atRead,
                   srvVars, sessVars>>
    /\ UNCHANGED auxVars

\* while True: camera.wait_recording(1) -- raises the exception the encoder
\* kept from a failed write; nothing in start or main catches it.
WaitRecording ==
    /\ mstate = "running" /\ mpc = "wait"
    /\ camErr
    /\ Crash
    /\ UNCHANGED <<camVars, convVars, bcastVars, srvVars, sessVars>>
    /\ UNCHANGED auxVars

\* --------------------------------------------- main: endProcess and cleanup
\* A termination signal: the handler endProcess runs on the main thread, on
\* top of whatever the main thread was doing (Server.start, or an earlier
\* endProcess), and calls server.cleanup() from its first statement.  The
\* interrupted frame never resumes: the handler ends in exit(0) or in an
\* exception.
endProcess ==
    /\ mstate = "running"
    /\ sigs < MaxSignals
    /\ sigs' = sigs + 1
    /\ mpc' = "stop_rec"
    /\ UNCHANGED <<mstate, steps>>
    /\ UNCHANGED <<camVars, convVars, bcastVars, srvVars, sessVars>>
    /\ UNCHANGED auxVars

\* camera.stop_recording(), up to and including BroadcastOutput.flush's
\* converter.stdin.close()
CleanupStopRecording ==
    /\ mstate = "running" /\ mpc = "stop_rec"
    /\ \/ /\ rec = "recording" /\ ~camErr
          /\ rec' = "stopping" /\ stdinOpen' = FALSE
          /\ Goto("wait_conv")
          /\ UNCHANGED camErr
       \/ /\ rec = "recording" /\ camErr
          /\ rec' = "stopped" /\ stdinOpen' = FALSE
          /\ Crash
          /\ UNCHANGED camErr
       \/ /\ rec \in {"idle", "stopped"}
          /\ Crash
          /\ UNCHANGED <<rec, camErr, stdinOpen>>
       \/ /\ rec = "stopping"
          /\ \/ Goto("wait_conv")
             \/ Crash
          /\ UNCHANGED <<rec, camErr, stdinOpen>>
    /\ UNCHANGED <<written, conv, convKind, outOpen, killed, pipe, emitted, lateOut,
                   bcastVars, srvVars, sessVars>>
    /\ UNCHANGED auxVars

\* BroadcastOutput.flush: converter.wait(), then stop_recording returns
FlushWait ==
    /\ mstate = "running" /\ mpc = "wait_conv"
    /\ conv = "exited"
    /\ rec' = "stopped"
    /\ Completed("stop_recording", "join_bcast")
    /\ UNCHANGED <<camErr, written, convVars, bcastVars, srvVars, sessVars>>
    /\ UNCHANGED auxVars

\* broadcast_thread.join()
CleanupJoinBroadcast ==
    /\ mstate = "running" /\ mpc = "join_bcast"
    /\ \/ bpc = "done" /\ Completed("join_broadcast", "shut_http")
       \/ bpc \in {"none", "created"} /\ Crash
    /\ UNCHANGED <<camVars, convVars, bcastVars, srvVars, sessVars>>
    /\ UNCHANGED auxVars

\* http_server.shutdown(): ask serve_forever to return ...
CleanupShutdownHttp ==
    /\ mstate = "running" /\ mpc = "shut_http"
    /\ httpReq' = TRUE
    /\ Goto("shut_http_wait")
    /\ UNCHANGED <<camVars, convVars, bcastVars, sessVars, httpT, wsT, wsReq>>
    /\ UNCHANGED auxVars

\* ... and block until it has
CleanupShutdownHttpWait ==
    /\ mstate = "running" /\ mpc = "shut_http_wait"
    /\ httpT = "stopped"
    /\ Completed("shutdown_http", "shut_ws")
    /\ UNCHANGED <<camVars, convVars, bcastVars, srvVars, sessVars>>
    /\ UNCHANGED auxVars

\* websocket_server.shutdown()
CleanupShutdownWebsocket ==
    /\ mstate = "running" /\ mpc = "shut_ws"
    /\ wsReq' = TRUE
    /\ Goto("shut_ws_wait")
    /\ UNCHANGED <<camVars, convVars, bcastVars, sessVars, httpT, httpReq, wsT>>
    /\ UNCHANGED auxVars

CleanupShutdownWebsocketWait ==
    /\ mstate = "running" /\ mpc = "shut_ws_wait"
    /\ wsT = "stopped"
    /\ Completed("shutdown_websocket", "join_http")
    /\ UNCHANGED <<camVars, convVars, bcastVars, srvVars, sessVars>>
    /\ UNCHANGED auxVars

\* http_thread.join()
CleanupJoinHttp ==
    /\ mstate = "running" /\ mpc = "join_http"
    /\ httpT = "stopped"
    /\ Completed("join_http", "join_ws")
    /\ UNCHANGED <<camVars, convVars, bcastVars, srvVars, sessVars>>
    /\ UNCHANGED auxVars

\* websocket_thread.join(); back in endProcess: print("Done."), exit(0)
CleanupJoinWebsocket ==
    /\ mstate = "running" /\ mpc = "join_ws"
    /\ wsT = "stopped"
    /\ mpc' = "end" /\ mstate' = "exited"
    /\ steps' = steps \cup {"join_websocket"}
    /\ UNCHANGED sigs
    /\ UNCHANGED <<camVars, convVars, bcastVars, srvVars, sessVars>>
    /\ UNCHANGED auxVars

MainStep ==
    \/ StartMakeWebsocketServer \/ StartMakeHttpServer \/ StartMakeBroadcast
    \/ StartRecording \/ StartWebsocketThread \/ StartHttpThread
    \/ StartBroadcastThread \/ WaitRecording
    \/ CleanupStopRecording \/ FlushWait \/ CleanupJoinBroadcast
    \/ CleanupShutdownHttp \/ CleanupShutdownHttpWait
    \/ CleanupShutdownWebsocket \/ CleanupShutdownWebsocketWait
    \/ CleanupJoinHttp \/ CleanupJoinWebsocket

\* ------------------------------------------------- camera and converter
\* BroadcastOutput.write, called by the camera's encoder for every frame:
\* converter.stdin.write(b).  On a converter that has exited the write raises
\* (broken pipe); write does not catch it.
write ==
    /\ rec = "recording" /\ ~camErr
    /\ \/ /\ conv = "running" /\ stdinOpen
          /\ written < MaxFrames
          /\ written' = written + 1
          /\ UNCHANGED camErr
       \/ /\ conv = "exited"
          /\ camErr' = TRUE
          /\ UNCHANGED written
    /\ UNCHANGED <<rec, mainVars, convVars, bcastVars, srvVars, sessVars>>
    /\ UNCHANGED auxVars

\* The converter writes compressed output to its stdout: into the pipe while
\* the pipe has room, and else it blocks in the write.
ConverterEmit ==
    /\ conv = "running" /\ outOpen /\ convKind = "good"
    /\ written > 0
    /\ Len(emitted) < MaxChunks
    /\ IF Len(pipe) < PipeCap
         THEN /\ emitted' = Append(emitted, Chunk(Len(emitted) + 1))
              /\ pipe' = Append(pipe, Chunk(Len(emitted) + 1))
              /\ lateOut' = IF stdinOpen THEN lateOut ELSE lateOut + 1
              /\ UNCHANGED convKind
         ELSE /\ convKind' = "writing"
              /\ UNCHANGED <<emitted, pipe, lateOut>>
    /\ UNCHANGED <<conv, stdinOpen, outOpen, killed>>
    /\ UNCHANGED <<mainVars, camVars, bcastVars, srvVars, sessVars>>
    /\ UNCHANGED auxVars

\* The blocked write returns once the reader has made room in the pipe.
ConverterEmitReturns ==
    /\ conv = "running" /\ outOpen /\ convKind = "writing"
    /\ Len(pipe) < PipeCap
    /\ emitted' = Append(emitted, Chunk(Len(emitted) + 1))
    /\ pipe' = Append(pipe, Chunk(Len(emitted) + 1))
    /\ lateOut' = IF stdinOpen THEN lateOut ELSE lateOut + 1
    /\ convKind' = "good"
    /\ UNCHANGED <<conv, stdinOpen, outOpen, killed>>
    /\ UNCHANGED <<mainVars, camVars, bcastVars, srvVars, sessVars>>
    /\ UNCHANGED auxVars

\* A well-behaved converter, at the end of its input, closes its output ...
ConverterFinish ==
    /\ conv = "running" /\ outOpen
    /\ ~stdinOpen /\ convKind = "good"
    /\ outOpen' = FALSE
    /\ UNCHANGED <<conv, convKind, stdinOpen, killed, pipe, emitted, lateOut>>
    /\ UNCHANGED <<mainVars, camVars, bcastVars, srvVars, sessVars>>
    /\ UNCHANGED auxVars

\* A converter that does not react to the end of its input: it neither
\* closes its output nor exits.
ConverterHangs ==
    /\ conv = "running" /\ outOpen
    /\ ~stdinOpen /\ convKind = "good"
    /\ convKind' = "stuck"
    /\ UNCHANGED <<conv, stdinOpen, outOpen, killed, pipe, emitted, lateOut>>
    /\ UNCHANGED <<mainVars, camVars, bcastVars, srvVars, sessVars>>
    /\ UNCHANGED auxVars

\* ... and exits.
ConverterExit ==
    /\ conv = "running" /\ ~outOpen
    /\ conv' = "exited"
    /\ UNCHANGED <<convKind, stdinOpen, outOpen, killed, pipe, emitted, lateOut>>
    /\ UNCHANGED <<mainVars, camVars, bcastVars, srvVars, sessVars>>
    /\ UNCHANGED auxVars

\* The converter process is killed from outside while the server runs.
ConverterKilled ==
    /\ conv = "running" /\ stdinOpen
    /\ conv' = "exited" /\ outOpen' = FALSE /\ killed' = TRUE
    /\ UNCHANGED <<convKind, stdinOpen, pipe, emitted, lateOut>>
    /\ UNCHANGED <<mainVars, camVars, bcastVars, srvVars, sessVars>>
    /\ UNCHANGED auxVars

\* ------------------------------------------------------ BroadcastThread.run
\* Mutant of RunRead: the loop gives up on the output as soon as the
\* converter has exited, whether or not unread output remains.
RunReadUntilExit ==
    /\ bpc = "read"
    /\ \/ /\ pipe # <<>> /\ conv # "exited"
          /\ buf' = Head(pipe) /\ pipe' = Tail(pipe)
          /\ atRead' = websockets
          /\ bpc' = "bcast"
       \/ /\ (pipe = <<>> /\ ~outOpen) \/ conv = "exited"
          /\ buf' = <<>>
          /\ bpc' = "poll"
          /\ UNCHANGED <<pipe, atRead>>
    /\ UNCHANGED <<conv, convKind, stdinOpen, outOpen, killed, emitted, lateOut>>
    /\ UNCHANGED <<stdoutClosed, snap, cur, nbcast>>
    /\ UNCHANGED <<mainVars, camVars, srvVars, sessVars>>
    /\ UNCHANGED auxVars

\* Mutant of RunRead: the thread stops draining the converter's output
\* once the camera no longer records.
RunReadWhileRecording ==
    /\ bpc = "read" /\ rec = "recording"
    /\ \/ /\ pipe # <<>>
          /\ buf' = Head(pipe) /\ pipe' = Tail(pipe)
          /\ atRead' = websockets
          /\ bpc' = "bcast"
       \/ /\ pipe = <<>> /\ ~outOpen
          /\ buf' = <<>>
          /\ bpc' = "poll"
          /\ UNCHANGED <<pipe, atRead>>
    /\ UNCHANGED <<conv, convKind, stdinOpen, outOpen, killed, emitted, lateOut>>
    /\ UNCHANGED <<stdoutClosed, snap, cur, nbcast>>
    /\ UNCHANGED <<mainVars, camVars, srvVars, sessVars>>
    /\ UNCHANGED auxVars

\* buf = self.converter.stdout.read(512): blocks until there is output or
\* the write end of the pipe is closed, and then returns no data.
RunRead ==
    /\ bpc = "read"
    /\ \/ /\ pipe # <<>>
          /\ buf' = Head(pipe) /\ pipe' = Tail(pipe)
          /\ atRead' = websockets
          /\ bpc' = "bcast"
       \/ /\ pipe = <<>> /\ ~outOpen
          /\ buf' = <<>>
          /\ bpc' = "poll"
          /\ UNCHANGED <<pipe, atRead>>
    /\ UNCHANGED <<conv, convKind, stdinOpen, outOpen, killed, emitted, lateOut>>
    /\ UNCHANGED <<stdoutClosed, snap, cur, nbcast>>
    /\ UNCHANGED <<mainVars, camVars, srvVars, sessVars>>
    /\ UNCHANGED auxVars

\* Mutant of RunPoll: run without its finally clause; the loop ends and
\* leaves the converter's stdout open.
RunPollNoFinally ==
    /\ bpc = "poll"
    /\ IF conv = "exited"
         THEN bpc' = "done" /\ UNCHANGED stdoutClosed
         ELSE bpc' = "read" /\ UNCHANGED stdoutClosed
    /\ UNCHANGED <<buf, snap, cur, nbcast, atRead>>
    /\ UNCHANGED <<mainVars, camVars, convVars, srvVars, sessVars>>
    /\ UNCHANGED auxVars

\* elif self.converter.poll() is not None: break -- and, on the way out,
\* finally: self.converter.stdout.close()
RunPoll ==
    /\ bpc = "poll"
    /\ IF conv = "exited"
         THEN bpc' = "done" /\ stdoutClosed' = TRUE
         ELSE bpc' = "read" /\ UNCHANGED stdoutClosed
    /\ UNCHANGED <<buf, snap, cur, nbcast, atRead>>
    /\ UNCHANGED <<mainVars, camVars, convVars, srvVars, sessVars>>
    /\ UNCHANGED auxVars

\* if buf: self.websocket_server.manager.broadcast(buf, binary=True) --
\* broadcast first copies manager.websockets under the manager's lock
RunBroadcast ==
    /\ bpc = "bcast"
    /\ snap' = websockets
    /\ nbcast' = nbcast + 1
    /\ bpc' = IF websockets = {} THEN "read" ELSE "send"
    /\ UNCHANGED <<stdoutClosed, buf, cur, atRead>>
    /\ UNCHANGED <<mainVars, camVars, convVars, srvVars, sessVars>>
    /\ UNCHANGED auxVars

\* ws.terminated: set when the manager removes the websocket.
terminated(s) == sess[s] = "removed"

\* What the broadcast thread does once it is through with websocket s.
NextTarget(s) ==
    /\ snap' = snap \ {s}
    /\ bpc' = IF snap \ {s} = {} THEN "read" ELSE "send"

\* Mutant of RunBroadcastSend: the fan-out stops after the first websocket
\* it has sent to.
RunBroadcastSendFirstOnly(s) ==
    /\ bpc = "send" /\ s \in snap
    /\ \/ /\ ~terminated(s) /\ sock[s] = "ok"
          /\ recv' = [recv EXCEPT ![s] = Append(@, Msg("chunk", buf))]
          /\ snap' = {} /\ bpc' = "read"
          /\ UNCHANGED cur
       \/ /\ terminated(s) \/ sock[s] = "broken"
          /\ NextTarget(s)
          /\ UNCHANGED <<recv, cur>>
       \/ /\ ~terminated(s) /\ sock[s] = "hung"
          /\ bpc' = "blocked" /\ cur' = s
          /\ UNCHANGED <<recv, snap>>
    /\ UNCHANGED <<stdoutClosed, buf, nbcast, atRead>>
    /\ UNCHANGED <<sess, sock, regAt, websockets>>
    /\ UNCHANGED <<mainVars, camVars, convVars, srvVars>>
    /\ UNCHANGED auxVars

\* Mutant of RunBroadcastSend: the exception of a failed send is not
\* swallowed; it leaves broadcast and run, through run's finally.
RunBroadcastSendRaises(s) ==
    /\ bpc = "send" /\ s \in snap
    /\ \/ /\ ~terminated(s) /\ sock[s] = "ok"
          /\ recv' = [recv EXCEPT ![s] = Append(@, Msg("chunk", buf))]
          /\ NextTarget(s)
          /\ UNCHANGED <<cur, stdoutClosed>>
       \/ /\ terminated(s)
          /\ NextTarget(s)
          /\ UNCHANGED <<recv, cur, stdoutClosed>>
       \/ /\ ~terminated(s) /\ sock[s] = "broken"
          /\ bpc' = "done" /\ stdoutClosed' = TRUE
          /\ UNCHANGED <<recv, cur, snap>>
       \/ /\ ~terminated(s) /\ sock[s] = "hung"
          /\ bpc' = "blocked" /\ cur' = s
          /\ UNCHANGED <<recv, snap, stdoutClosed>>
    /\ UNCHANGED <<buf, nbcast, atRead>>
    /\ UNCHANGED <<sess, sock, regAt, websockets>>
    /\ UNCHANGED <<mainVars, camVars, convVars, srvVars>>
    /\ UNCHANGED auxVars

\* ... and then, for each websocket of the copy that is not terminated,
\* ws.send(message, binary) inside try/except: pass
RunBroadcastSend(s) ==
    /\ bpc = "send" /\ s \in snap
    /\ \/ /\ ~terminated(s) /\ sock[s] = "ok"
          /\ recv' = [recv EXCEPT ![s] = Append(@, Msg("chunk", buf))]
          /\ NextTarget(s)
          /\ UNCHANGED cur
       \/ /\ terminated(s) \/ sock[s] = "broken"
          /\ NextTarget(s)
          /\ UNCHANGED <<recv, cur>>
       \/ /\ ~terminated(s) /\ sock[s] = "hung"
          /\ bpc' = "blocked" /\ cur' = s
          /\ UNCHANGED <<recv, snap>>
    /\ UNCHANGED <<stdoutClosed, buf, nbcast, atRead>>
    /\ UNCHANGED <<sess, sock, regAt, websockets>>
    /\ UNCHANGED <<mainVars, camVars, convVars, srvVars>>
    /\ UNCHANGED auxVars

\* A send that blocks returns only when the connection breaks: sendall
\* raises, and broadcast swallows the exception.
RunBroadcastSendFails ==
    /\ bpc = "blocked" /\ sock[cur] = "broken"
    /\ NextTarget(cur)
    /\ cur' = 0
    /\ UNCHANGED <<stdoutClosed, buf, nbcast, atRead>>
    /\ UNCHANGED <<mainVars, camVars, convVars, srvVars, sessVars>>
    /\ UNCHANGED auxVars

run ==
    \/ RunRead \/ RunPoll \/ RunBroadcast
    \/ (\E s \in Sessions : RunBroadcastSend(s))
    \/ RunBroadcastSendFails

\* ------------------------------------------------------- listener threads
\* http_thread: serve_forever returns once shutdown() was requested.
HttpServeForever ==
    /\ httpT = "serving" /\ httpReq
    /\ httpT' = "stopped"
    /\ UNCHANGED <<httpReq, wsT, wsReq>>
    /\ UNCHANGED <<mainVars, camVars, convVars, bcastVars, sessVars>>
    /\ UNCHANGED auxVars

InHandler(s) == sess[s] \in {"accepted", "opened"}

\* websocket_thread: serve_forever handles one connection at a time and
\* returns, between two connections, once shutdown() was requested.
WebsocketServeForever ==
    /\ wsT = "serving" /\ wsReq
    /\ \A s \in Sessions : ~InHandler(s)
    /\ wsT' = "stopped"
    /\ UNCHANGED <<httpT, httpReq, wsReq>>
    /\ UNCHANGED <<mainVars, camVars, convVars, bcastVars, sessVars>>
    /\ UNCHANGED auxVars

\* --------------------------------------------------------- viewer sessions
\* A viewer connects to the websocket port and the upgrade is accepted.
Connect(s) ==
    /\ wsT = "serving"
    /\ sess[s] = "new"
    /\ \A t \in Sessions : ~InHandler(t)
    /\ sess' = [sess EXCEPT ![s] = "accepted"]
    /\ UNCHANGED <<sock, recv, regAt, websockets>>
    /\ UNCHANGED <<mainVars, camVars, convVars, bcastVars, srvVars>>
    /\ UNCHANGED auxVars

\* Mutant of opened: a new viewer is also sent the chunk the forwarding
\* loop read last.
openedReplaysLast(s) ==
    /\ sess[s] = "accepted"
    /\ \/ /\ sock[s] = "ok"
          /\ recv' = [recv EXCEPT ![s] =
                        IF buf = <<>> THEN Append(@, HeaderMsg)
                        ELSE Append(Append(@, HeaderMsg), Msg("chunk", buf))]
          /\ sess' = [sess EXCEPT ![s] = "opened"]
       \/ /\ sock[s] = "broken"
          /\ sess' = [sess EXCEPT ![s] = "failed"]
          /\ UNCHANGED recv
    /\ UNCHANGED <<sock, regAt, websockets>>
    /\ UNCHANGED <<mainVars, camVars, convVars, bcastVars, srvVars>>
    /\ UNCHANGED auxVars

\* StreamingWebSocket.opened, called by manager.add before it inserts the
\* websocket: self.send(JSMPEG_HEADER.pack(JSMPEG_MAGIC, WIDTH, HEIGHT)).
\* A send that raises ends the handler, and the websocket is never inserted.
opened(s) ==
    /\ sess[s] = "accepted"
    /\ \/ /\ sock[s] = "ok"
          /\ recv' = [recv EXCEPT ![s] = Append(@, HeaderMsg)]
          /\ sess' = [sess EXCEPT ![s] = "opened"]
       \/ /\ sock[s] = "broken"
          /\ sess' = [sess EXCEPT ![s] = "failed"]
          /\ UNCHANGED recv
    /\ UNCHANGED <<sock, regAt, websockets>>
    /\ UNCHANGED <<mainVars, camVars, convVars, bcastVars, srvVars>>
    /\ UNCHANGED auxVars

\* Mutant of ManagerAdd: the websocket joins manager.websockets before
\* opened() has sent the handshake.
ManagerAddBeforeOpened(s) ==
    /\ \/ /\ sess[s] = "accepted" /\ s \notin websockets
          /\ UNCHANGED sess
       \/ /\ sess[s] = "opened"
          /\ sess' = [sess EXCEPT ![s] = "managed"]
    /\ websockets' = websockets \cup {s}
    /\ regAt' = [regAt EXCEPT ![s] = nbcast]
    /\ UNCHANGED <<sock, recv>>
    /\ UNCHANGED <<mainVars, camVars, convVars, bcastVars, srvVars>>
    /\ UNCHANGED auxVars

\* Mutant of ManagerAdd: broadcast iterates over manager.websockets itself
\* instead of a copy, so a websocket inserted during a broadcast joins the
\* iteration in progress.
ManagerAddIntoIteration(s) ==
    /\ sess[s] = "opened"
    /\ websockets' = websockets \cup {s}
    /\ sess' = [sess EXCEPT ![s] = "managed"]
    /\ regAt' = [regAt EXCEPT ![s] = nbcast]
    /\ snap' = IF bpc = "send" THEN snap \cup {s} ELSE snap
    /\ UNCHANGED <<sock, recv>>
    /\ UNCHANGED <<stdoutClosed, bpc, buf, cur, nbcast, atRead>>
    /\ UNCHANGED <<mainVars, camVars, convVars, srvVars>>
    /\ UNCHANGED auxVars

\* manager.add, after opened() returned: the websocket joins
\* manager.websockets under the manager's lock.
ManagerAdd(s) ==
    /\ sess[s] = "opened"
    /\ websockets' = websockets \cup {s}
    /\ sess' = [sess EXCEPT ![s] = "managed"]
    /\ regAt' = [regAt EXCEPT ![s] = nbcast]
    /\ UNCHANGED <<sock, recv>>
    /\ UNCHANGED <<mainVars, camVars, convVars, bcastVars, srvVars>>
    /\ UNCHANGED auxVars

\* The viewer's connection breaks (closed or reset by the peer).
ClientBreak(s) ==
    /\ sess[s] \in {"accepted", "managed"}
    /\ sock[s] # "broken"
    /\ sock' = [sock EXCEPT ![s] = "broken"]
    /\ UNCHANGED <<sess, recv, regAt, websockets>>
    /\ UNCHANGED <<mainVars, camVars, convVars, bcastVars, srvVars>>
    /\ UNCHANGED auxVars

\* The viewer stops reading: once the socket buffer is full a send blocks.
ClientHang(s) ==
    /\ sess[s] = "managed" /\ sock[s] = "ok"
    /\ sock' = [sock EXCEPT ![s] = "hung"]
    /\ UNCHANGED <<sess, recv, regAt, websockets>>
    /\ UNCHANGED <<mainVars, camVars, convVars, bcastVars, srvVars>>
    /\ UNCHANGED auxVars

\* The manager's own thread finds the connection gone, removes the
\* websocket from manager.websockets and terminates it.
ManagerRemove(s) ==
    /\ s \in websockets /\ sock[s] = "broken"
    /\ websockets' = websockets \ {s}
    /\ sess' = [sess EXCEPT ![s] = "removed"]
    /\ UNCHANGED <<sock, recv, regAt>>
    /\ UNCHANGED <<mainVars, camVars, convVars, bcastVars, srvVars>>
    /\ UNCHANGED auxVars

\* ---------------------------------------------------- StreamingHttpHandler
\* BaseHTTPRequestHandler.date_time_string(t): the date of t to the second
\* (t counts half seconds).
date_time_string(t) == "date " \o ToString(t \div 2)

\* send_response(code): the status line and the Server and Date headers.
send_response(code, t) ==
    [status |-> code,
     headers |-> << <<"Server", "BaseHTTP">>, <<"Date", date_time_string(t)>> >>,
     body |-> <<>>]

send_header(r, name, value) == [r EXCEPT !.headers = Append(@, <<name, value>>)]

wfile_write(r, content) == [r EXCEPT !.body = @ \o content]

\* The page BaseHTTPRequestHandler.send_error makes of code and message.
ErrorPage(code) == encode(<<60, 112, 62>> \o Dec(code))

\* send_error(code, message) of BaseHTTPRequestHandler: Connection,
\* Content-Type and Content-Length headers, and the page unless the command
\* is HEAD.
send_error(command, code, t) ==
    LET body == ErrorPage(code)
        r0 == send_response(code, t)
        r1 == send_header(r0, "Connection", "close")
        r2 == send_header(r1, "Content-Type", "text/html;charset=utf-8")
        r3 == send_header(r2, "Content-Length", ToString(Len(body)))
    IN  IF command # "HEAD" THEN wfile_write(r3, body) ELSE r3

\* Mutant of OkResponse: the body is written whatever the command is.
OkResponseAlwaysWritesBody(command, content_type, text, t) ==
    LET content == encode(text)
        r0 == send_response(200, t)
        r1 == send_header(r0, "Content-Type", content_type)
        r2 == send_header(r1, "Content-Length", ToString(Len(content)))
        r3 == send_header(r2, "Last-Modified", date_time_string(t))
    IN  wfile_write(r3, content)

\* Mutant of OkResponse: no Last-Modified header is sent.
OkResponseNoLastModified(command, content_type, text, t) ==
    LET content == encode(text)
        r0 == send_response(200, t)
        r1 == send_header(r0, "Content-Type", content_type)
        r2 == send_header(r1, "Content-Length", ToString(Len(content)))
    IN  IF command = "GET" THEN wfile_write(r2, content) ELSE r2

\* The end of do_GET, for the two routes that have content: encode it, send
\* 200 and the three headers, and write the content if the command is GET.
OkResponse(command, content_type, text, t) ==
    LET content == encode(text)
        r0 == send_response(200, t)
        r1 == send_header(r0, "Content-Type", content_type)
        r2 == send_header(r1, "Content-Length", ToString(Len(content)))
        r3 == send_header(r2, "Last-Modified", date_time_string(t))
    IN  IF command = "GET" THEN wfile_write(r3, content) ELSE r3

\* dict(ADDRESS='%s:%d' % (getsockname()[0], WS_PORT), WIDTH=WIDTH, ...)
Mapping(sockname) ==
    [ADDRESS |-> sockname \o <<58>> \o Dec(WS_PORT),
     WIDTH |-> Dec(WIDTH), HEIGHT |-> Dec(HEIGHT),
     COLOR |-> COLOR, BGCOLOR |-> BGCOLOR]

\* Mutant of do_GET: a path that is none of the three is served the page.
do_GETServesPageByDefault(command, path, sockname, t) ==
    IF path = "/"
      THEN send_header(send_response(301, t), "Location", "/index.html")
    ELSE IF path = "/jsmpg.js"
      THEN OkResponse(command, "application/javascript", jsmpg_content, t)
    ELSE OkResponse(command, "text/html; charset=utf-8",
                    safe_substitute(index_template, Mapping(sockname)), t)

do_GET(command, path, sockname, t) ==
    IF path = "/"
      THEN send_header(send_response(301, t), "Location", "/index.html")
    ELSE IF path = "/jsmpg.js"
      THEN OkResponse(command, "application/javascript", jsmpg_content, t)
    ELSE IF path = "/index.html"
      THEN OkResponse(command, "text/html; charset=utf-8",
                      safe_substitute(index_template, Mapping(sockname)), t)
    ELSE send_error(command, 404, t)

do_HEAD(command, path, sockname, t) == do_GET(command, path, sockname, t)

\* The HTTP thread handles one request: handle_one_request calls the do_
\* method of the command.
HandleRequest(c, p, a) ==
    /\ httpT = "serving"
    /\ request' = [command |-> c, path |-> p, sockname |-> a, at |-> now]
    /\ response' = IF c = "HEAD" THEN do_HEAD(c, p, a, now) ELSE do_GET(c, p, a, now)
    /\ prev' = [request |-> request, response |-> response]
    /\ UNCHANGED <<index_template, jsmpg_content, now, packVars, serverVars>>

\* Time passes.
Tick ==
    /\ now < MaxTime
    /\ now' = now + 1
    /\ UNCHANGED <<index_template, jsmpg_content, request, response, prev>>
    /\ UNCHANGED <<packVars, serverVars>>

\* The server as Server.start leaves it: everything created and started, the
\* main thread in its wait_recording loop, no viewer yet.
Running ==
    /\ mpc = "wait" /\ mstate = "running" /\ sigs = 0 /\ steps = {}
    /\ rec = "recording" /\ camErr = FALSE /\ written = 0
    /\ conv = "running" /\ convKind = "good" /\ stdinOpen = TRUE
    /\ outOpen = TRUE /\ killed = FALSE /\ pipe = <<>> /\ emitted = <<>>
    /\ lateOut = 0
    /\ stdoutClosed = FALSE /\ bpc = "read" /\ buf = <<>> /\ snap = {} /\ cur = 0
    /\ nbcast = 0 /\ atRead = {}
    /\ httpT = "serving" /\ httpReq = FALSE /\ wsT = "serving" /\ wsReq = FALSE
    /\ sess = [s \in Sessions |-> "new"]
    /\ sock = [s \in Sessions |-> "ok"]
    /\ recv = [s \in Sessions |-> <<>>]
    /\ regAt = [s \in Sessions |-> 0]
    /\ websockets = {}

\* The running server, for every content of the two files it read.
HttpInit ==
    /\ Running /\ InitPack /\ InitExchange
    /\ index_template \in Templates
    /\ jsmpg_content \in Scripts

HttpNext ==
    \/ Tick
    \/ \E c \in Commands, p \in Paths, a \in Socknames : HandleRequest(c, p, a)

HttpSpec == HttpInit /\ [][HttpNext]_vars

\* ---------------------------------------------------------- specification
Next ==
    \/ MainStep
    \/ endProcess
    \/ write
    \/ ConverterEmit \/ ConverterEmitReturns
    \/ ConverterFinish \/ ConverterHangs \/ ConverterExit
    \/ ConverterKilled
    \/ run
    \/ HttpServeForever \/ WebsocketServeForever
    \/ \E s \in Sessions :
         \/ Connect(s) \/ opened(s) \/ ManagerAdd(s)
         \/ ClientBreak(s) \/ ClientHang(s) \/ ManagerRemove(s)

Spec == Init /\ [][Next]_vars

\* Scheduling: the main thread, the broadcast thread and the two listener
\* threads are running threads and the converter is a running process, so
\* each takes its next step whenever it can: a read, a send, a wait or a
\* join returns once what it waits for has happened, serve_forever looks at
\* its shutdown flag every poll interval, a handshake in progress goes on,
\* and a converter that reacts to the end of its input closes its output
\* and exits.  Nothing is assumed of the viewers, the signals or a kill.
FairSpec ==
    /\ Spec
    /\ WF_vars(MainStep)
    /\ WF_vars(run)
    /\ WF_vars(ConverterEmitReturns)
    /\ WF_vars(ConverterFinish)
    /\ WF_vars(ConverterExit)
    /\ WF_vars(HttpServeForever)
    /\ WF_vars(WebsocketServeForever)
    /\ WF_vars(\E s \in Sessions : opened(s) \/ ManagerAdd(s))

\* An orderly shutdown: the server with a converter that reacts to the end
\* of its input, viewers whose sends complete (a send that blocks ends when
\* the connection breaks), and a single stop request, which arrives while
\* the main thread is in its wait_recording loop.
StopRequest == endProcess /\ sigs = 0 /\ mpc = "wait"

SendCompletes == \E s \in Sessions : sock[s] = "hung" /\ ClientBreak(s)

OrderlyNext ==
    \/ MainStep
    \/ StopRequest
    \/ write
    \/ ConverterEmit \/ ConverterEmitReturns
    \/ ConverterFinish \/ ConverterExit
    \/ ConverterKilled
    \/ run
    \/ HttpServeForever \/ WebsocketServeForever
    \/ \E s \in Sessions :
         \/ Connect(s) \/ opened(s) \/ ManagerAdd(s)
         \/ ClientBreak(s) \/ ClientHang(s) \/ ManagerRemove(s)

OrderlySpec ==
    /\ Init /\ [][OrderlyNext]_vars
    /\ WF_vars(MainStep)
    /\ WF_vars(run)
    /\ WF_vars(ConverterEmitReturns)
    /\ WF_vars(ConverterFinish)
    /\ WF_vars(ConverterExit)
    /\ WF_vars(HttpServeForever)
    /\ WF_vars(WebsocketServeForever)
    /\ WF_vars(\E s \in Sessions : opened(s) \/ ManagerAdd(s))
    /\ WF_vars(SendCompletes)

\* ------------------------------------------------------------- properties
\* A viewer that is registered and whose connection works.
Healthy(s) == sess[s] = "managed" /\ sock[s] = "ok"

\* The number of broadcast calls that are through with websocket s.
Through(s) ==
    IF bpc \in {"send", "blocked"} /\ s \in snap THEN nbcast - 1 ELSE nbcast

\* The handshake followed by chunks from+1 .. to of the converter's output.
Stream(from, to) ==
    <<HeaderMsg>> \o [i \in 1..(to - from) |-> Msg("chunk", emitted[from + i])]

\* C1: every session registered before the first broadcast and never
\* failing has received the handshake and then exactly the chunks broadcast
\* so far, each once, in production order and unchanged; when the forwarding
\* loop has ended these are all the chunks the converter emitted.
C1_PreRegisteredReceiveAll ==
    \A s \in Sessions :
        (Healthy(s) /\ regAt[s] = 0) =>
            /\ recv[s] = Stream(0, Through(s))
            /\ (bpc = "done" => Through(s) = Len(emitted))

C1_Witness ==
    /\ bpc = "done"
    /\ Len(emitted) = MaxChunks
    /\ \A s \in Sessions :
          Healthy(s) /\ regAt[s] = 0 /\ Len(recv[s]) = 1 + MaxChunks

\* C2: whatever a session has received starts with the handshake, the
\* handshake occurs in it exactly once, and a session that went through
\* opened() has received it.
C2_HandshakeOnceAndFirst ==
    \A s \in Sessions :
        /\ recv[s] # <<>> => recv[s][1] = HeaderMsg
        /\ \A i \in 2..Len(recv[s]) : recv[s][i].kind = "chunk"
        /\ sess[s] \in {"opened", "managed", "removed"} => recv[s] # <<>>

\* A session opened while the forwarding loop was broadcasting.
C2_Witness ==
    \E s \in Sessions :
        /\ regAt[s] >= 1
        /\ Len(recv[s]) >= 2
        /\ bpc \in {"bcast", "send"}

\* C3: a session inserted when K broadcasts had begun has received the
\* handshake and then a contiguous run of chunks that starts at chunk K+1,
\* never one of chunks 1..K; and once a broadcast is complete, every healthy
\* session that was registered when its chunk was read has that chunk as
\* the last message it received.
C3_NoBackfill ==
    /\ \A s \in Sessions :
          \A i \in 1..(Len(recv[s]) - 1) :
              /\ regAt[s] + i <= Len(emitted)
              /\ recv[s][i + 1] = Msg("chunk", emitted[regAt[s] + i])
    /\ \A s \in Sessions :
          Healthy(s) => recv[s] = Stream(regAt[s], Through(s))
    /\ (bpc = "read" /\ buf # <<>>) =>
          \A s \in atRead :
              Healthy(s) => recv[s][Len(recv[s])] = Msg("chunk", buf)

\* A session registered after the first chunk was broadcast, which then
\* received the rest of the stream.
C3_Witness ==
    \E s \in Sessions :
        /\ bpc = "done"
        /\ Healthy(s)
        /\ regAt[s] = 1
        /\ Len(emitted) = MaxChunks
        /\ recv[s] = Stream(1, MaxChunks)

\* C5: Server.cleanup asks the websocket server to shut down only after it
\* has joined the forwarding thread, and by that join the forwarding loop
\* has ended, the converter has exited and every chunk it emitted,
\* including output it produced after its input was closed, has been read
\* and passed to broadcast.
C5_DrainedBeforeHubTeardown ==
    /\ wsReq => "join_broadcast" \in steps
    /\ "join_broadcast" \in steps =>
          /\ bpc = "done"
          /\ conv = "exited"
          /\ pipe = <<>>
          /\ nbcast = Len(emitted)

C5_Witness ==
    /\ wsReq
    /\ lateOut >= 1
    /\ nbcast = MaxChunks

C4_TeardownOrder ==
    ~killed =>
    /\ (conv # "none" /\ ~stdinOpen) => rec # "recording"
    /\ (httpReq \/ wsReq) =>
          /\ "stop_recording" \in steps
          /\ websockets = {}
          /\ \A s \in Sessions : sess[s] \notin {"accepted", "opened", "managed"}
    /\ (steps \cap {"join_broadcast", "join_http", "join_websocket"} # {}) =>
          {"shutdown_http", "shutdown_websocket"} \subseteq steps

\* C6: a stop request that arrives while the server is already stopping is
\* a no-op: it does not move the main thread back to the start of the
\* teardown and changes nothing else.
C6_StopIsIdempotent ==
    [][(sigs >= 1 /\ sigs' = sigs + 1) =>
          (mpc' = mpc /\ UNCHANGED <<mstate, steps, camVars, convVars>>)]_vars

\* C7: the wait for the converter's exit in BroadcastOutput.flush is
\* bounded: while cleanup waits for a converter that has stopped responding,
\* the wait can still end.
C7_FlushWaitIsBounded ==
    (mstate = "running" /\ mpc = "wait_conv" /\ bpc # "created"
        /\ conv = "running" /\ convKind = "stuck") => ENABLED FlushWait

\* C8: when the converter was killed and a write to it failed, the server
\* goes through its shutdown by itself: without any stop request, the main
\* thread is never gone with the listener threads still serving.
C8_TranscoderFailureStopsServer ==
    (killed /\ camErr /\ sigs = 0 /\ mstate # "running") =>
        (httpT # "serving" /\ wsT # "serving")

\* C9: a send that hangs is bounded by a timeout: while the forwarding
\* thread is inside a send to a viewer that does not read, the thread can
\* still take a step (give up on that viewer and go on with the others).
C9_HungSendIsBounded ==
    (bpc = "blocked" /\ sock[cur] = "hung") => ENABLED run

\* C11: under every interleaving of registration, removal and broadcast
\* the active set stays consistent: a session is in manager.websockets
\* exactly while it is registered (no registration or removal is lost), a
\* step that changes the set inserts one opened session or removes one whose
\* connection broke, such a step never changes what a broadcast in progress
\* iterates over, that iteration only holds sessions that were inserted, and
\* a healthy session has every chunk broadcast since it was inserted.
C11_ActiveSetConsistent ==
    /\ [](\A s \in Sessions : sess[s] = "managed" <=> s \in websockets)
    /\ [](\A s \in snap : sess[s] \in {"managed", "removed"})
    /\ [](\A s \in Sessions : Healthy(s) => recv[s] = Stream(regAt[s], Through(s)))
    /\ [][websockets' # websockets =>
            /\ snap' = snap /\ bpc' = bpc
            /\ \E s \in Sessions :
                  \/ /\ sess[s] = "opened"
                     /\ websockets' = websockets \cup {s}
                  \/ /\ s \in websockets /\ sock[s] = "broken"
                     /\ websockets' = websockets \ {s}]_vars

\* A session was inserted while a broadcast was in progress.
C11_Witness ==
    \E s, t \in Sessions :
        /\ bpc = "send"
        /\ t \in snap
        /\ s \in websockets \ snap
        /\ regAt[s] = nbcast

\* C12: once Server.cleanup has completed, no viewer session is still open
\* or registered and the websocket listener accepts no more connections.
C12_HubShutdownClosesSessions ==
    mstate = "exited" =>
        /\ wsT = "stopped"
        /\ websockets = {}
        /\ \A s \in Sessions : sess[s] \notin {"accepted", "opened", "managed"}

\* C20: a teardown started by a signal at any point of Server.start never
\* fails on a component that is missing or was never started: cleanup never
\* ends in the exception of stop_recording on a camera that never recorded
\* or of join on a broadcast thread that was never started.
C20_TeardownOnlyOfStartedComponents ==
    (mstate = "crashed" /\ ~killed) =>
        /\ ~(mpc = "stop_rec" /\ rec = "idle")
        /\ ~(mpc = "join_bcast" /\ bpc \in {"none", "created"})

\* C17: BroadcastThread.run ends exactly at a read that returned no data
\* with the converter exited: it ends only from its poll after an empty read
\* and only with the converter exited, a poll that finds the converter alive
\* goes back to the read, when it has ended no unread output remains, and
\* once the thread runs, the converter has exited and its output is
\* exhausted, run eventually ends.
C17_LoopEndsAtEndOfStream ==
    /\ [](bpc = "done" => conv = "exited" /\ pipe = <<>>)
    /\ [][(bpc # "done" /\ bpc' = "done") =>
             bpc = "poll" /\ buf = <<>> /\ conv = "exited"]_vars
    /\ [][(bpc = "poll" /\ conv # "exited" /\ bpc' # bpc) => bpc' = "read"]_vars
    /\ ((bpc \notin {"none", "created"} /\ conv = "exited" /\ pipe = <<>>)
            ~> bpc = "done")

\* C18: the converter is stopped once and in order: without a kill from
\* outside it exits only after its stdin was closed, and its stdout is
\* closed by run only after it exited; stdin, the process and stdout never
\* come back once closed or exited; run has ended exactly when it has closed
\* stdout, so stdout is closed on every end of the loop and never read
\* afterwards; and whenever the encoder can still call write (the camera is
\* recording) stdin is open.
C18_ConverterStoppedOnceInOrder ==
    /\ []((conv = "exited" /\ ~killed) => ~stdinOpen)
    /\ [](stdoutClosed => conv = "exited")
    /\ [](stdoutClosed <=> bpc = "done")
    /\ [](rec = "recording" => stdinOpen)
    /\ [][/\ (conv # "none" /\ ~stdinOpen) => ~stdinOpen'
          /\ conv = "exited" => conv' = "exited"
          /\ stdoutClosed => stdoutClosed' /\ pipe' = pipe /\ bpc' = bpc
          /\ written' # written => stdinOpen /\ stdinOpen']_vars

\* A shutdown went through all three steps: frames were written, stdin was
\* closed by flush, the converter exited, run ended and closed stdout.
C18_Witness ==
    /\ written > 0 /\ ~killed
    /\ ~stdinOpen /\ conv = "exited"
    /\ bpc = "done" /\ stdoutClosed
    /\ "stop_recording" \in steps

\* ------------------------------------------------- the handshake's bytes
\* The dimensions the fields are tried with next to the full range.
Edge == {0, WIDTH, HEIGHT, 2^16 - 1}

\* Any configuration of WIDTH and HEIGHT that fits the two fields.
PackInit ==
    /\ InitServer /\ InitExchange
    /\ index_template = <<>> /\ jsmpg_content = <<>>
    /\ packed = <<>>
    /\ \/ pw \in USHORT /\ ph \in Edge
       \/ pw \in Edge /\ ph \in USHORT

\* JSMPEG_HEADER.pack(JSMPEG_MAGIC, WIDTH, HEIGHT) in opened
PackHeader ==
    /\ packed = <<>>
    /\ packed' = JSMPEG_HEADER_pack(JSMPEG_MAGIC, pw, ph)
    /\ UNCHANGED <<pw, ph, serverVars, httpVars>>

PackSpec == PackInit /\ [][PackHeader]_vars

\* C13: the handshake is 8 bytes: the 4 bytes of the magic 'jsmp', then the
\* width and then the height as unsigned 16-bit big-endian integers, so that
\* both decode back to the configured values; for 640 x 480 the fields are
\* 0x02 0x80 0x01 0xE0.
C13_HeaderIsEightBytesBigEndian ==
    packed # <<>> =>
        /\ Len(packed) = 8
        /\ \A i \in 1..8 : packed[i] \in 0..255
        /\ SubSeq(packed, 1, 4) = <<106, 115, 109, 112>>
        /\ packed[5] * 256 + packed[6] = pw
        /\ packed[7] * 256 + packed[8] = ph
        /\ (pw = 640 /\ ph = 480) => SubSeq(packed, 5, 8) = <<2, 128, 1, 224>>

\* The header of the configuration of the source was packed.
C13_Witness ==
    /\ pw = 640 /\ ph = 480
    /\ packed = <<106, 115, 109, 112, 2, 128, 1, 224>>

\* ------------------------------------------------------ the HTTP handler
\* The value of the first header of that name, "" if there is none.
Header(r, name) ==
    LET I == {i \in 1..Len(r.headers) : r.headers[i][1] = name}
    IN  IF I = {} THEN "" ELSE r.headers[CHOOSE i \in I : \A j \in I : i <= j][2]

Has(r, name) == \E i \in 1..Len(r.headers) : r.headers[i][1] = name

Contains(s, pat) ==
    \E i \in 1..(Len(s) - Len(pat) + 1) : SubSeq(s, i, i + Len(pat) - 1) = pat

Handled == request # NoRequest

\* C14: the handler serves three routes: '/' is answered 301 with Location
\* '/index.html'; '/index.html' is answered 200 with content type
\* 'text/html; charset=utf-8' and, on GET, a body that contains the
\* configured width and height; '/jsmpg.js' is answered 200 with content
\* type 'application/javascript'; every other path is answered 404.
C14_ThreeRoutes ==
    Handled =>
        /\ request.path = "/" =>
              /\ response.status = 301
              /\ Header(response, "Location") = "/index.html"
        /\ request.path = "/index.html" =>
              /\ response.status = 200
              /\ Header(response, "Content-Type") = "text/html; charset=utf-8"
              /\ request.command = "GET" =>
                    /\ Contains(response.body, <<54, 52, 48>>)
                    /\ Contains(response.body, <<52, 56, 48>>)
        /\ request.path = "/jsmpg.js" =>
              /\ response.status = 200
              /\ Header(response, "Content-Type") = "application/javascript"
        /\ request.path \notin {"/", "/index.html", "/jsmpg.js"} =>
              response.status = 404

\* Each of the four kinds of answer was given: a GET of the page after a
\* GET of a path that does not exist.
C14_Witness ==
    /\ request.command = "GET" /\ request.path = "/index.html"
    /\ response.status = 200 /\ Contains(response.body, <<54, 52, 48>>)
    /\ prev.request.path = "/nonexistent.file" /\ prev.response.status = 404

\* C15: a HEAD is answered with no body; a HEAD and a GET of the same path,
\* within the same second, are answered with the same status and the same
\* headers, names and values; and a GET answered 200 carries a body of
\* exactly Content-Length bytes.
C15_HeadIsGetWithoutBody ==
    Handled =>
        /\ request.command = "HEAD" => response.body = <<>>
        /\ (/\ prev.request # NoRequest
            /\ prev.request.path = request.path
            /\ prev.request.sockname = request.sockname
            /\ prev.request.at \div 2 = request.at \div 2
            /\ prev.request.command # request.command) =>
              /\ prev.response.status = response.status
              /\ prev.response.headers = response.headers
        /\ (request.command = "GET" /\ response.status = 200) =>
              /\ Header(response, "Content-Length") = ToString(Len(response.body))
              /\ request.path = "/jsmpg.js" => response.body = encode(jsmpg_content)

\* A HEAD of the page right after a GET of it, within the same second.
C15_Witness ==
    /\ request.command = "HEAD" /\ request.path = "/index.html"
    /\ prev.request.command = "GET" /\ prev.request.path = "/index.html"
    /\ prev.request.at \div 2 = request.at \div 2
    /\ prev.response.body # <<>> /\ response.status = 200

\* C16 as claimed: every response, the 301 and the 404 included, has a
\* Content-Type, a Content-Length and a Last-Modified header.
C16_EveryResponseHasThreeHeaders ==
    Handled =>
        /\ Has(response, "Content-Type")
        /\ Has(response, "Content-Length")
        /\ Has(response, "Last-Modified")

\* C16 as amended: every 200 response, to GET and to HEAD, has a
\* Content-Type, a Content-Length and a Last-Modified header; the 404 has a
\* Content-Type but no Last-Modified, the 301 has none of the three.
C16_OkResponsesHaveThreeHeaders ==
    Handled =>
        /\ response.status \in {200, 301, 404}
        /\ response.status = 200 =>
              /\ Has(response, "Content-Type")
              /\ Has(response, "Content-Length")
              /\ Has(response, "Last-Modified")
        /\ response.status = 404 =>
              /\ Has(response, "Content-Type")
              /\ ~Has(response, "Last-Modified")
        /\ response.status = 301 =>
              /\ ~Has(response, "Content-Type")
              /\ ~Has(response, "Content-Length")
              /\ ~Has(response, "Last-Modified")

\* A HEAD was answered 200 after a request that was answered 301.
C16_Witness ==
    /\ request.command = "HEAD" /\ response.status = 200
    /\ Has(response, "Last-Modified")
    /\ prev.response.status = 301

\* C19: with a converter that exits once its input is closed and its output
\* is drained, and sends that complete, a single stop request issued while
\* the server runs leads to the end of Server.cleanup with the broadcast,
\* HTTP and websocket threads joined, unless the converter was killed (the
\* wait in flush lies on the way, so it ends too).
C19_SingleStopCompletesCleanup ==
    (sigs = 1 /\ mpc = "stop_rec") ~>
        \/ /\ mstate = "exited"
           /\ bpc = "done" /\ httpT = "stopped" /\ wsT = "stopped"
           /\ {"stop_recording", "join_broadcast", "join_http", "join_websocket"}
                 \subseteq steps
        \/ killed

\* Cleanup completed after a single stop request, under the assumptions of
\* C19, and the converter still wrote output after its input was closed:
\* flush waited while run drained.
C19_Witness ==
    /\ mstate = "exited" /\ sigs = 1 /\ ~killed
    /\ lateOut > 0 /\ Len(emitted) = MaxChunks
    /\ "join_websocket" \in steps

=============================================================================
